---- MODULE Spec2Model ----
(***************************************************************************)
(* Session state machine of the Smart Legal Doc Explainer (src/app.py).    *)
(*                                                                         *)
(* app.py is a Streamlit script: every user interaction with a widget      *)
(* starts a run of the whole script, top to bottom, against the session's  *)
(* st.session_state.  The model keeps                                      *)
(*   - the session state the script reads and writes (full_text,           *)
(*     uploaded_file_name, the twelve *_result slots, the three input      *)
(*     keys),                                                              *)
(*   - the widget values the browser holds (the uploaded file, the OCR     *)
(*     checkbox, the persona text area, the pending button click),         *)
(*   - the position of the running script (pc) at its blocking calls: the  *)
(*     text extraction of lines 249-284 and the chat completion call of a  *)
(*     feature handler.                                                    *)
(* A widget interaction that arrives while a run is blocked asks the       *)
(* runtime to stop that run: the next st.* element call of the run raises  *)
(* the runtime's script-control exception, which is a BaseException and so *)
(* passes every `except Exception` of the script; the run ends there and   *)
(* the next run starts with the new widget values.                         *)
(*                                                                         *)
(* Texts are sequences of tokens: "x" is a run of more than 50 visible     *)
(* characters, "NL" a newline, " " white space, "o" and "p" visible        *)
(* output.  The empty string is << >>.                                     *)
(***************************************************************************)
EXTENDS Integers, Sequences, FiniteSets, TLC

(* ------------------------------- bounds -------------------------------- *)
\* readable pages (pdf), paragraphs (docx) or chunks (txt) of an uploaded
\* file that has any
MaxPages == 2
\* user interactions in one behaviour
MaxSteps == 3
\* characters of a text handed to the PDF export
MaxChars == 4
\* user interactions in one behaviour of a session on one document
DeepSteps == 6

(* ----------------------------- vocabulary ------------------------------ *)
\* Python's None, as a button name, as a file name and as a message content
None == "None"
NoName == [stem |-> None, ext |-> None]
NoContent == << None >>
EmptyText == << >>

\* st.session_state.*_result keys, lines 219-230
Slots ==
  { "summary_result", "takeaways_result", "qa_answer_result",
    "clause_explanation_result", "entities_result",
    "obligations_rights_result", "glossary_result", "outline_result",
    "risk_opportunity_result", "comparison_result", "jurisdiction_result",
    "sentiment_result" }

\* the slot each feature button of the source writes
SlotOf ==
  [ q_a_button_tab |-> "qa_answer_result",
    explain_clause_button_tab |-> "clause_explanation_result",
    extract_entities_button_tab |-> "entities_result",
    extract_obligations_button_tab |-> "obligations_rights_result",
    generate_glossary_button_tab |-> "glossary_result",
    generate_outline_button_tab |-> "outline_result",
    generate_summary_button_tab |-> "summary_result",
    extract_takeaways_button_tab |-> "takeaways_result",
    analyze_risks_button_tab |-> "risk_opportunity_result" ]

FeatureButtons == DOMAIN SlotOf

\* The buttons the user of the model presses: the handlers of the other
\* four (lines 553-720 and 845-873) repeat the entities handler with other
\* names.
PressedButtons ==
  { "q_a_button_tab", "explain_clause_button_tab",
    "extract_entities_button_tab", "generate_summary_button_tab",
    "extract_takeaways_button_tab" }

ClearButton == "clear_doc_button"

\* st.file_uploader(type=["pdf", "docx", "txt"]), line 238
FileNames ==
  { [stem |-> "a", ext |-> "pdf"],
    [stem |-> "b", ext |-> "docx"],
    [stem |-> "c", ext |-> "TXT"] }

\* A file body is its pages (paragraphs, chunks): "x" is a page that yields
\* text, "ERR" one that makes the reader raise.  Every reader stops at the
\* first page that raises, so a body is some readable pages (none, or
\* MaxPages of them) and then, maybe, a page that raises.
GoodPages(n) == [i \in 1..n |-> "x"]

Bodies ==
  { GoodPages(n) \o tail : n \in {0, MaxPages}, tail \in {<< >>, <<"ERR">>} }

Files == { [name |-> n, body |-> b] : n \in FileNames, b \in Bodies }

\* the uploader widget holds no file
NoFile == [name |-> NoName, body |-> << >>]

\* the sidebar text area, lines 207-211
DefaultPersona == "legal expert"
Personas == {DefaultPersona, "concise"}

Questions == { <<"x">> }

\* what the chat completion returns in message.content: text, or None
RawOutputs == { <<"o">>, <<" ", "p", " ">>, <<" ">>, NoContent }

\* how the chat completion call fails
FailKinds == {"rate_limit", "auth", "connection", "other"}

Outcomes ==
  { [kind |-> "ok", raw |-> r] : r \in RawOutputs }
    \cup { [kind |-> k, raw |-> NoContent] : k \in FailKinds }

(* --------------------------- pure functions ---------------------------- *)
\* str.lower() on a file extension, line 246
Lower(ext) ==
  CASE ext = "PDF" -> "pdf"
    [] ext = "DOCX" -> "docx"
    [] ext = "TXT" -> "txt"
    [] OTHER -> ext

\* uploaded_file.name.split(".")[-1].lower(), line 246
FileTypeOf(name) == Lower(name.ext)

RECURSIVE Join(_)
\* "\n".join(list), lines 257 and 274
Join(texts) ==
  IF texts = << >> THEN EmptyText
  ELSE IF Len(texts) = 1 THEN texts[1]
  ELSE texts[1] \o <<"NL">> \o Join(Tail(texts))

RECURSIVE Concat(_)
Concat(texts) ==
  IF texts = << >> THEN EmptyText ELSE texts[1] \o Concat(Tail(texts))

HasErr(body) == \E i \in 1..Len(body) : body[i] = "ERR"

PartTexts(body) == [i \in 1..Len(body) |-> <<body[i]>>]

RECURSIVE PdfPlain(_, _)
\* the page loop of lines 265-266: processed_text grows page by page and
\* keeps what it has when page.get_text() raises
PdfPlain(body, acc) ==
  IF body = << >> THEN [text |-> acc, ok |-> TRUE]
  ELSE IF Head(body) = "ERR" THEN [text |-> acc, ok |-> FALSE]
  ELSE PdfPlain(Tail(body), acc \o <<Head(body)>>)

\* lines 253-257: processed_text is assigned once, after the page loop
PdfOcr(body) ==
  IF HasErr(body) THEN [text |-> EmptyText, ok |-> FALSE]
  ELSE [text |-> Join(PartTexts(body)), ok |-> TRUE]

\* lines 273-274
Docx(body) ==
  IF HasErr(body) THEN [text |-> EmptyText, ok |-> FALSE]
  ELSE [text |-> Join(PartTexts(body)), ok |-> TRUE]

\* line 281
Txt(body) ==
  IF HasErr(body) THEN [text |-> EmptyText, ok |-> FALSE]
  ELSE [text |-> Concat(PartTexts(body)), ok |-> TRUE]

\* lines 246-284: processed_text when the spinner block is left, and
\* whether a success or an error notice was shown
Extract(file, ocr) ==
  LET file_type == FileTypeOf(file.name) IN
  CASE file_type = "pdf" /\ ocr -> PdfOcr(file.body)
    [] file_type = "pdf" /\ ~ocr -> PdfPlain(file.body, EmptyText)
    [] file_type = "docx" -> Docx(file.body)
    [] file_type = "txt" -> Txt(file.body)
    [] OTHER -> [text |-> EmptyText, ok |-> TRUE]

IsSpace(tok) == tok \in {" ", "NL"}

RECURSIVE LStrip(_)
LStrip(t) ==
  IF t = << >> THEN t
  ELSE IF IsSpace(Head(t)) THEN LStrip(Tail(t))
  ELSE t

RECURSIVE RStrip(_)
RStrip(t) ==
  IF t = << >> THEN t
  ELSE IF IsSpace(t[Len(t)]) THEN RStrip(SubSeq(t, 1, Len(t) - 1))
  ELSE t

\* str.strip()
Strip(t) == RStrip(LStrip(t))

RECURSIVE SplitLines(_, _)
\* str.split("\n"): cur is the line being read
SplitLines(t, cur) ==
  IF t = << >> THEN <<cur>>
  ELSE IF Head(t) = "NL" THEN <<cur>> \o SplitLines(Tail(t), << >>)
  ELSE SplitLines(Tail(t), cur \o <<Head(t)>>)

\* len(p.strip()) > 50: "x" stands for more than 50 visible characters
IsLong(line) == \E i \in 1..Len(Strip(line)) : Strip(line)[i] = "x"

RECURSIVE KeepLong(_)
KeepLong(lines) ==
  IF lines = << >> THEN << >>
  ELSE IF IsLong(Head(lines)) THEN <<Strip(Head(lines))>> \o KeepLong(Tail(lines))
  ELSE KeepLong(Tail(lines))

\* line 421
Clauses(text) == KeepLong(SplitLines(text, << >>))

InSeq(s, e) == \E i \in 1..Len(s) : s[i] = e

\* reportlab flowables, as create_pdf puts them in its story
Paragraph(text, style) == [kind |-> "Paragraph", text |-> text, style |-> style]
Spacer(height) == [kind |-> "Spacer", text |-> EmptyText, style |-> height]

RECURSIVE ContentLoopNoStrip(_, _)
\* mutant of ContentLoop: line 51 tests paragraph_text, not its strip()
ContentLoopNoStrip(lines, story) ==
  IF lines = << >> THEN story
  ELSE LET paragraph_text == Head(lines) IN
       ContentLoopNoStrip(Tail(lines),
         IF paragraph_text # EmptyText
           THEN story \o << Paragraph(paragraph_text, "Normal"), Spacer("10") >>
           ELSE story)

RECURSIVE ContentLoop(_, _)
\* the loop of lines 50-53 over text_content.split('\n')
ContentLoop(lines, story) ==
  IF lines = << >> THEN story
  ELSE LET paragraph_text == Head(lines) IN
       ContentLoop(Tail(lines),
         IF Strip(paragraph_text) # EmptyText
           THEN story \o << Paragraph(paragraph_text, "Normal"), Spacer("10") >>
           ELSE story)

\* lines 39-57: the story that create_pdf hands to doc.build
create_pdf(text_content, title) ==
  ContentLoop(SplitLines(text_content, << >>),
              << Paragraph(title, "h1"), Spacer("20") >>)

\* texts of at most n characters: visible output, white space, newlines
RECURSIVE TextsUpTo(_)
TextsUpTo(n) ==
  IF n = 0 THEN { EmptyText }
  ELSE LET shorter == TextsUpTo(n - 1) IN
       shorter \cup { t \o <<c>> : t \in shorter, c \in {"o", " ", "NL"} }

\* the results a PDF download button exports (lines 413, 784)
Contents == TextsUpTo(MaxChars)

\* the default title of line 39 and the title of line 784
Titles == { <<"Document Insight">>, <<"Executive Summary">> }

(* -------------------------------- state -------------------------------- *)
VARIABLES
  full_text,              \* st.session_state.full_text
  uploaded_file_name,     \* st.session_state.uploaded_file_name
  results,                \* st.session_state.<slot>, for the twelve slots
  q_a_input_tab,          \* st.session_state.q_a_input_tab
  clause_select_tab,      \* st.session_state.clause_select_tab
  compare_input_tab,      \* st.session_state.compare_input_tab
  uploaded_file,          \* value of the file uploader widget
  use_ocr,                \* value of the OCR checkbox
  custom_ai_instruction,  \* value of the sidebar text area
  clicked,                \* button click waiting for the next run
  pc,                     \* where the script run is
  trig,                   \* the button whose st.button() is True in this run
  stopReq,                \* the runtime was asked to stop the running script
  job,                    \* file and mode the running extraction reads
  call,                   \* button and prompt of the running completion call
  notices,                \* st.success / st.error / st.warning of this run
  shownText,              \* document text the widgets on screen were drawn for
  origin,                 \* per slot: the prompt its content was generated from
  textFile,               \* the file full_text was extracted from
  lastOp,                 \* what the last step of the script did, and to what
  dropped,                \* the last load or Clear emptied a slot with a result
  steps,                  \* user interactions so far
  exportText,             \* text_content of a create_pdf call
  exportTitle,            \* title of a create_pdf call
  exportStory             \* the story the call has built

session == <<full_text, uploaded_file_name, results, q_a_input_tab,
             clause_select_tab, compare_input_tab>>
widgets == <<uploaded_file, use_ocr, custom_ai_instruction, clicked>>
run == <<pc, trig, stopReq, job, call, notices, shownText>>
ghost == <<origin, textFile, lastOp, dropped>>
export == <<exportText, exportTitle, exportStory>>
vars == <<session, widgets, run, ghost, steps, export>>

NoPrompt == [doc |-> EmptyText, persona |-> None, input |-> EmptyText]
NoOutcome == [kind |-> None, raw |-> NoContent]
NoCall == [button |-> None, prompt |-> NoPrompt, outcome |-> NoOutcome]
NoJob == [file |-> NoFile, ocr |-> FALSE]

EmptyResults == [s \in Slots |-> EmptyText]

\* lastOp: `dirty` tells whether the step found a result or an input (for
\* a feature run: the slot of the feature) non-empty
Op(name, dirty) == [op |-> name, dirty |-> dirty]

InputsEmpty ==
  /\ q_a_input_tab = EmptyText
  /\ clause_select_tab = EmptyText
  /\ compare_input_tab = EmptyText

Dirty == results # EmptyResults \/ ~InputsEmpty
NoOrigins == [s \in Slots |-> NoPrompt]
NoStory == << >>

\* lines 214-235, and the widgets' initial values
FreshSession ==
  /\ full_text = EmptyText
  /\ uploaded_file_name = NoName
  /\ results = EmptyResults
  /\ q_a_input_tab = EmptyText
  /\ clause_select_tab = EmptyText
  /\ compare_input_tab = EmptyText
  /\ uploaded_file = NoFile
  /\ use_ocr = FALSE
  /\ custom_ai_instruction = DefaultPersona
  /\ clicked = None
  /\ pc = "idle"
  /\ trig = None
  /\ stopReq = FALSE
  /\ job = NoJob
  /\ call = NoCall
  /\ notices = {}
  /\ shownText = EmptyText
  /\ origin = NoOrigins
  /\ textFile = NoFile
  /\ lastOp = Op(None, FALSE)
  /\ dropped = FALSE

\* a session of the app: no create_pdf call is looked at
Init ==
  /\ FreshSession
  /\ steps = 0
  /\ exportText = EmptyText
  /\ exportTitle = <<"Document Insight">>
  /\ exportStory = NoStory

(* -------------------------- user interactions -------------------------- *)
\* A widget interaction asks for a script run.  With no run in progress (or
\* one that has not reached line 243 yet) the next run starts with the new
\* widget values; a run blocked in the extraction or in a completion call is
\* asked to stop.  `click` is the button pressed, None for another widget.
Interact(click) ==
  /\ steps < MaxSteps
  /\ steps' = steps + 1
  /\ pc \in {"idle", "start", "extracting", "calling"}
  /\ clicked' = IF click # None THEN click ELSE clicked
  /\ IF pc \in {"idle", "start"}
       THEN pc' = "start" /\ stopReq' = stopReq
       ELSE pc' = pc /\ stopReq' = TRUE
  /\ UNCHANGED <<trig, job, call, notices, shownText, ghost, export>>

\* the feature widgets are on screen, line 341
FeaturesShown == shownText # EmptyText

\* the clause selectbox and its button are on screen, lines 422-439
ClauseShown == FeaturesShown /\ Clauses(shownText) # << >>

\* st.file_uploader, line 238: the user picks a file
Upload(f) ==
  /\ f \in Files
  /\ f # uploaded_file
  /\ uploaded_file' = f
  /\ Interact(None)
  /\ UNCHANGED <<session, use_ocr, custom_ai_instruction>>

\* st.file_uploader, line 238: the user removes the file from the widget
RemoveFile ==
  /\ uploaded_file # NoFile
  /\ uploaded_file' = NoFile
  /\ Interact(None)
  /\ UNCHANGED <<session, use_ocr, custom_ai_instruction>>

\* st.checkbox, line 239
ToggleOcr ==
  /\ use_ocr' = ~use_ocr
  /\ Interact(None)
  /\ UNCHANGED <<session, uploaded_file, custom_ai_instruction>>

\* st.sidebar.text_area, lines 207-211
SetInstructionPersona(p) ==
  /\ p \in Personas
  /\ p # custom_ai_instruction
  /\ custom_ai_instruction' = p
  /\ Interact(None)
  /\ UNCHANGED <<session, uploaded_file, use_ocr>>

\* mutant of SetQuestion: a new question clears the answer to the old one
SetQuestionClearsAnswer(q) ==
  /\ FeaturesShown
  /\ q \in Questions \cup {EmptyText}
  /\ q # q_a_input_tab
  /\ q_a_input_tab' = q
  /\ results' = [results EXCEPT !["qa_answer_result"] = EmptyText]
  /\ Interact(None)
  /\ UNCHANGED <<full_text, uploaded_file_name, clause_select_tab,
                 compare_input_tab, uploaded_file, use_ocr,
                 custom_ai_instruction>>

\* st.text_input(key="q_a_input_tab"), line 361
SetQuestion(q) ==
  /\ FeaturesShown
  /\ q \in Questions \cup {EmptyText}
  /\ q # q_a_input_tab
  /\ q_a_input_tab' = q
  /\ Interact(None)
  /\ UNCHANGED <<full_text, uploaded_file_name, results, clause_select_tab,
                 compare_input_tab, uploaded_file, use_ocr,
                 custom_ai_instruction>>

\* st.selectbox(key="clause_select_tab"), line 437
SelectClause(c) ==
  /\ ClauseShown
  /\ c # clause_select_tab
  /\ clause_select_tab' = c
  /\ Interact(None)
  /\ UNCHANGED <<full_text, uploaded_file_name, results, q_a_input_tab,
                 compare_input_tab, uploaded_file, use_ocr,
                 custom_ai_instruction>>

\* st.button(..., key="clear_doc_button"), line 317: drawn in every run
ClickClear ==
  /\ Interact(ClearButton)
  /\ UNCHANGED <<session, uploaded_file, use_ocr, custom_ai_instruction>>

\* a feature button is pressed; it is on screen only with a document, and
\* the clause button only with a clause list (lines 341, 422-439)
ClickFeature(b) ==
  /\ b \in FeatureButtons
  /\ FeaturesShown
  /\ b = "explain_clause_button_tab" => ClauseShown
  /\ Interact(b)
  /\ UNCHANGED <<session, uploaded_file, use_ocr, custom_ai_instruction>>

(* ------------------------------ script run ----------------------------- *)
\* mutant of IsNewUpload: a file whose load left no text is loaded again
IsNewUploadOnEmptyText ==
  /\ uploaded_file # NoFile
  /\ \/ uploaded_file_name = NoName
     \/ uploaded_file_name # uploaded_file.name
     \/ full_text = EmptyText

\* mutant of IsNewUpload: every file in the widget counts as a new upload
IsNewUploadAnyFile == uploaded_file # NoFile

\* line 243: a file is in the widget and its name is not the stored one
IsNewUpload ==
  /\ uploaded_file # NoFile
  /\ (uploaded_file_name = NoName \/ uploaded_file_name # uploaded_file.name)

\* Lines 207-248.  The run reads the widgets; on a new upload it stores the
\* file name (line 245) and enters the extraction, otherwise it falls
\* through the branches of lines 305-312.
StartRun ==
  /\ pc = "start"
  /\ trig' = clicked
  /\ clicked' = None
  /\ notices' = {}
  /\ stopReq' = FALSE
  /\ IF IsNewUpload
       THEN /\ uploaded_file_name' = uploaded_file.name
            /\ job' = [file |-> uploaded_file, ocr |-> use_ocr]
            /\ pc' = "extracting"
            /\ lastOp' = Op(IF lastOp.op = "clear" THEN "upload after clear"
                                                   ELSE "new upload", Dirty)
       ELSE /\ pc' = "body"
            /\ lastOp' = Op(IF uploaded_file = NoFile THEN "no file"
                                                     ELSE "same file", Dirty)
            /\ UNCHANGED <<uploaded_file_name, job>>
  /\ UNCHANGED <<full_text, results, q_a_input_tab, clause_select_tab,
                 compare_input_tab, uploaded_file, use_ocr,
                 custom_ai_instruction, call, shownText, origin, textFile,
                 dropped, steps, export>>

\* mutant of StoreDocument: lines 287-298 run only when text was extracted
StoreDocumentKeepsResultsOfNoText(text) ==
  /\ full_text' = text
  /\ results' = IF text # EmptyText THEN EmptyResults ELSE results
  /\ q_a_input_tab' = EmptyText
  /\ clause_select_tab' = EmptyText
  /\ compare_input_tab' = EmptyText

\* mutant of StoreDocument: the Q&A answer and question are not cleared
StoreDocumentKeepsAnswer(text) ==
  /\ full_text' = text
  /\ results' = [s \in Slots |->
                  IF s = "qa_answer_result" THEN results[s] ELSE EmptyText]
  /\ q_a_input_tab' = q_a_input_tab
  /\ clause_select_tab' = EmptyText
  /\ compare_input_tab' = EmptyText

\* mutant of StoreDocument: lines 287-298 are missing
StoreDocumentKeepsResults(text) ==
  /\ full_text' = text
  /\ results' = results
  /\ q_a_input_tab' = EmptyText
  /\ clause_select_tab' = EmptyText
  /\ compare_input_tab' = EmptyText

\* lines 285-302: the text is stored, every result and input key is cleared
StoreDocument(text) ==
  /\ full_text' = text
  /\ results' = EmptyResults
  /\ q_a_input_tab' = EmptyText
  /\ clause_select_tab' = EmptyText
  /\ compare_input_tab' = EmptyText

\* Lines 249-302.  The extraction returns.  A run that was asked to stop
\* ends at the st.success / st.error of its branch (lines 258-284), before
\* line 285; otherwise the branch runs to line 302.
FinishExtraction ==
  /\ pc = "extracting"
  /\ LET r == Extract(job.file, job.ocr) IN
       IF stopReq
         THEN /\ pc' = "start"
              /\ lastOp' = Op("load stopped", Dirty)
              /\ UNCHANGED <<full_text, results, q_a_input_tab,
                             clause_select_tab, compare_input_tab, notices,
                             origin, textFile, dropped>>
         ELSE /\ StoreDocument(r.text)
              /\ notices' = {IF r.ok THEN "extracted" ELSE "extraction failed"}
              /\ origin' = NoOrigins
              /\ textFile' = job.file
              /\ lastOp' = Op("load", Dirty)
              /\ dropped' = (results # EmptyResults)
              /\ pc' = "body"
  /\ stopReq' = FALSE
  /\ job' = NoJob
  /\ UNCHANGED <<uploaded_file_name, widgets, trig, call, shownText, steps,
                 export>>

\* mutant of ClearDocument: line 319 is missing
ClearDocumentKeepsName ==
  /\ full_text' = EmptyText
  /\ uploaded_file_name' = uploaded_file_name
  /\ results' = EmptyResults
  /\ q_a_input_tab' = EmptyText
  /\ clause_select_tab' = EmptyText
  /\ compare_input_tab' = EmptyText

\* mutant of ClearDocument: lines 321-332 are missing
ClearDocumentKeepsResults ==
  /\ full_text' = EmptyText
  /\ uploaded_file_name' = NoName
  /\ results' = results
  /\ q_a_input_tab' = EmptyText
  /\ clause_select_tab' = EmptyText
  /\ compare_input_tab' = EmptyText

\* lines 318-336
ClearDocument ==
  /\ full_text' = EmptyText
  /\ uploaded_file_name' = NoName
  /\ results' = EmptyResults
  /\ q_a_input_tab' = EmptyText
  /\ clause_select_tab' = EmptyText
  /\ compare_input_tab' = EmptyText

\* mutant of SelectedClause: the stored selection is used as it is, without
\* the index of lines 427-435
SelectedClauseAsStored(text) == clause_select_tab

\* lines 427-437: the clause the selectbox yields
SelectedClause(text) ==
  IF InSeq(Clauses(text), clause_select_tab)
    THEN clause_select_tab
    ELSE Clauses(text)[1]

\* mutant of HandlerRuns: line 341 is `if uploaded_file and full_text:`
HandlerRunsWithFile(b, text) ==
  /\ uploaded_file # NoFile
  /\ text # EmptyText
  /\ b \in FeatureButtons
  /\ b = "q_a_button_tab" => q_a_input_tab # EmptyText
  /\ b = "explain_clause_button_tab" => Clauses(text) # << >>

\* mutant of HandlerRuns: the `and user_question` of line 362 is missing
HandlerRunsWithoutQuestion(b, text) ==
  /\ text # EmptyText
  /\ b \in FeatureButtons
  /\ b = "explain_clause_button_tab" => Clauses(text) # << >>

\* mutant of HandlerRuns: the `if full_text:` of line 341 is missing
HandlerRunsWithoutText(b, text) ==
  /\ b \in FeatureButtons
  /\ b = "q_a_button_tab" => q_a_input_tab # EmptyText
  /\ b = "explain_clause_button_tab" => Clauses(text) # << >>

\* the condition under which the handler of button b runs, given that the
\* button is pressed: lines 341, 362, 422-439
HandlerRuns(b, text) ==
  /\ text # EmptyText
  /\ b \in FeatureButtons
  /\ b = "q_a_button_tab" => q_a_input_tab # EmptyText
  /\ b = "explain_clause_button_tab" => Clauses(text) # << >>

\* mutant of PromptOf: the prompt is built with the default persona of line
\* 209, not with the text area's value
PromptOfDefaultPersona(b, text) ==
  [ doc |-> text,
    persona |-> DefaultPersona,
    input |-> CASE b = "q_a_button_tab" -> q_a_input_tab
                [] b = "explain_clause_button_tab" -> SelectedClause(text)
                [] OTHER -> EmptyText ]

\* what the f-string prompt of a handler is built from: the document text
\* the run read at line 314, the persona, and the question (Q&A) or the
\* selected clause (the only part of the text the clause prompt quotes)
PromptOf(b, text) ==
  [ doc |-> text,
    persona |-> custom_ai_instruction,
    input |-> CASE b = "q_a_button_tab" -> q_a_input_tab
                [] b = "explain_clause_button_tab" -> SelectedClause(text)
                [] OTHER -> EmptyText ]

\* Lines 314-341 and the guards of the handlers.  full_text is read from the
\* session (line 314); the Clear handler resets the session and calls
\* st.rerun(); with a document, the handler of the pressed button starts its
\* completion call; any other run draws the page and ends.
RunBody ==
  /\ pc = "body"
  /\ IF trig = ClearButton
       THEN /\ ClearDocument
            /\ origin' = NoOrigins
            /\ textFile' = NoFile
            /\ lastOp' = Op("clear", Dirty)
            /\ dropped' = (results # EmptyResults)
            /\ pc' = "start"
            /\ UNCHANGED <<call, shownText, notices>>
       ELSE /\ UNCHANGED <<session, origin, textFile, dropped>>
            /\ shownText' = full_text
            /\ lastOp' = IF trig \in FeatureButtons /\ ~HandlerRuns(trig, full_text)
                            THEN Op("press ignored", Dirty)
                            ELSE lastOp
            /\ IF HandlerRuns(trig, full_text)
                 THEN /\ call' = [button |-> trig,
                                  prompt |-> PromptOf(trig, full_text),
                                  outcome |-> NoOutcome]
                      /\ pc' = "calling"
                      /\ UNCHANGED notices
                 ELSE /\ pc' = "idle"
                      /\ notices' = notices \cup
                           (IF full_text # EmptyText /\ Clauses(full_text) = << >>
                              THEN {"no clauses"} ELSE {})
                      /\ UNCHANGED call
  /\ trig' = None
  /\ UNCHANGED <<widgets, stopReq, job, steps, export>>

\* openai.APIError subclasses that carry status_code and response
\* (APIStatusError: rate limit, authentication, ...); APIConnectionError is
\* an APIError without these attributes
HasStatusCode(kind) == kind \in {"rate_limit", "auth"}

IsAPIError(kind) == kind \in {"rate_limit", "auth", "connection"}

\* What the try/except of a handler does with the outcome of the call
\* (lines 379-397, and the same block in every handler) when the run was
\* asked to stop while the call was blocked (stop = TRUE) or not:
\*   "store"  the stripped content is written to the slot (line 389)
\*   "clear"  "" is written to the slot (lines 394, 397)
\*   "keep"   the slot is not written
HandlerEffect(o, stop) ==
  CASE o.kind = "ok" /\ o.raw # NoContent -> "store"
       \* None.strip() raises AttributeError: the except Exception clause
    [] o.kind = "ok" /\ o.raw = NoContent -> IF stop THEN "keep" ELSE "clear"
       \* st.error(f"... {e.status_code} - {e.response}") raises
       \* AttributeError inside the except clause: line 394 is not reached
    [] IsAPIError(o.kind) /\ ~HasStatusCode(o.kind) -> "keep"
       \* st.error precedes the assignment: a stopped run ends at st.error
    [] OTHER -> IF stop THEN "keep" ELSE "clear"

HandlerNotice(o) ==
  CASE o.kind = "ok" /\ o.raw # NoContent -> "generated"
    [] o.kind = "ok" /\ o.raw = NoContent -> "unexpected error"
    [] IsAPIError(o.kind) /\ HasStatusCode(o.kind) -> "OpenAI API Error"
    [] IsAPIError(o.kind) -> "uncaught AttributeError"
    [] OTHER -> "unexpected error"

\* The completion call of lines 380-388 returns message.content or raises.
CallReturns(o) ==
  /\ pc = "calling"
  /\ o \in Outcomes
  /\ call' = [call EXCEPT !.outcome = o]
  /\ pc' = "returned"
  /\ UNCHANGED <<session, widgets, trig, stopReq, job, notices, shownText,
                 ghost, steps, export>>

\* Lines 389-397 (Q&A) and the same block of every other handler: the slot
\* of the handler is written, and the run draws the rest of the page.
HandleOutcome ==
  /\ pc = "returned"
  /\ LET slot == SlotOf[call.button]
         o == call.outcome
         effect == HandlerEffect(o, stopReq)
     IN /\ results' =
             CASE effect = "store" -> [results EXCEPT ![slot] = Strip(o.raw)]
               [] effect = "clear" -> [results EXCEPT ![slot] = EmptyText]
               [] OTHER -> results
        /\ origin' =
             CASE effect = "store" -> [origin EXCEPT ![slot] = call.prompt]
               [] effect = "clear" -> [origin EXCEPT ![slot] = NoPrompt]
               [] OTHER -> origin
        /\ notices' =
             IF stopReq THEN notices ELSE notices \cup {HandlerNotice(o)}
        /\ lastOp' = Op("feature run", results[slot] # EmptyText)
  /\ pc' = IF stopReq THEN "start" ELSE "idle"
  /\ stopReq' = FALSE
  /\ call' = NoCall
  /\ UNCHANGED <<full_text, uploaded_file_name, q_a_input_tab,
                 clause_select_tab, compare_input_tab, widgets, trig, job,
                 shownText, textFile, dropped, steps, export>>

(* ---------------------------- specification ---------------------------- *)
Next ==
  \/ \E f \in Files : Upload(f)
  \/ RemoveFile
  \/ ToggleOcr
  \/ \E p \in Personas : SetInstructionPersona(p)
  \/ \E q \in Questions \cup {EmptyText} : SetQuestion(q)
  \/ \E i \in 1..Len(Clauses(shownText)) : SelectClause(Clauses(shownText)[i])
  \/ ClickClear
  \/ \E b \in PressedButtons : ClickFeature(b)
  \/ StartRun
  \/ FinishExtraction
  \/ RunBody
  \/ \E o \in Outcomes : CallReturns(o)
  \/ HandleOutcome

Spec == Init /\ [][Next]_vars

(* ----------------------- a session on one document --------------------- *)
\* The same script under a user who works on one readable pdf: uploads it,
\* types and erases the question, selects a clause, changes the persona and
\* presses the Q&A, clause, summary and Clear buttons, for DeepSteps
\* interactions.
DeepFile == [name |-> [stem |-> "a", ext |-> "pdf"], body |-> GoodPages(MaxPages)]

DeepButtons ==
  { "q_a_button_tab", "explain_clause_button_tab",
    "generate_summary_button_tab" }

DeepOutcomes ==
  { [kind |-> "ok", raw |-> <<"o">>], [kind |-> "ok", raw |-> <<" ", "p", " ">>],
    [kind |-> "connection", raw |-> NoContent],
    [kind |-> "other", raw |-> NoContent] }

\* `steps` counts up to MaxSteps: the count starts DeepSteps below it
InitDeep ==
  /\ FreshSession
  /\ steps = MaxSteps - DeepSteps
  /\ exportText = EmptyText
  /\ exportTitle = <<"Document Insight">>
  /\ exportStory = NoStory

NextDeep ==
  \/ Upload(DeepFile)
  \/ \E p \in Personas : SetInstructionPersona(p)
  \/ \E q \in Questions \cup {EmptyText} : SetQuestion(q)
  \/ \E i \in 1..Len(Clauses(shownText)) : SelectClause(Clauses(shownText)[i])
  \/ ClickClear
  \/ \E b \in DeepButtons : ClickFeature(b)
  \/ StartRun
  \/ FinishExtraction
  \/ RunBody
  \/ \E o \in DeepOutcomes : CallReturns(o)
  \/ HandleOutcome

SpecDeep == InitDeep /\ [][NextDeep]_vars

(* ------------------------------ PDF export ----------------------------- *)
\* the PDF download button of a result is drawn: lines 410-417, 781-788
InitPdf ==
  /\ FreshSession
  /\ steps = 0
  /\ exportText \in Contents
  /\ exportTitle \in Titles
  /\ exportStory = NoStory

\* data=create_pdf(result, title), lines 413 and 784
CreatePdf ==
  /\ exportStory = NoStory
  /\ exportStory' = create_pdf(exportText, exportTitle)
  /\ UNCHANGED <<session, widgets, run, ghost, steps, exportText, exportTitle>>

NextPdf == CreatePdf

SpecPdf == InitPdf /\ [][NextPdf]_vars

(* ------------------------------- claims -------------------------------- *)
\* steps of the script, told by the position before and after
LoadCompletes == pc = "extracting" /\ pc' = "body"
SameFileSeen ==
  /\ pc = "start" /\ pc' # "start"
  /\ uploaded_file # NoFile
  /\ uploaded_file.name = uploaded_file_name
ClearHandled == pc = "body" /\ trig = ClearButton
OutcomeHandled == pc = "returned"
PressOnEmptyDocument ==
  pc = "body" /\ trig \in FeatureButtons /\ full_text = EmptyText

\* C1: a load of a file whose name differs from the stored one, when it
\* completes, leaves every result slot and every input key empty, whatever
\* they held before.
C1_LoadResetsEverything ==
  [][LoadCompletes =>
       /\ results' = EmptyResults
       /\ q_a_input_tab' = EmptyText
       /\ clause_select_tab' = EmptyText
       /\ compare_input_tab' = EmptyText]_vars

\* a load has completed over a session that held a result or an input
C1_Witness ==
  /\ pc = "body"
  /\ lastOp = Op("load", TRUE)
  /\ results = EmptyResults
  /\ InputsEmpty

\* C2: in every state, the content of a non-empty slot was generated from a
\* prompt built on the document text that is stored now.
C2_ResultsFromStoredText ==
  \A s \in Slots : results[s] # EmptyText => origin[s].doc = full_text

\* a slot holds a result of the stored document
C2_Witness ==
  /\ pc = "idle"
  /\ full_text # EmptyText
  /\ \E s \in Slots : results[s] # EmptyText /\ origin[s].doc = full_text

\* C3: outside a running load, a stored document text was extracted from
\* the file whose name is stored: no state shows the new upload's name with
\* the old document's text.
C3_LoadIsAtomic ==
  (pc # "extracting" /\ full_text # EmptyText)
    => textFile.name = uploaded_file_name

\* C4: a run that finds the uploader's file under the stored name does not
\* start an extraction and changes no session key, whatever the bytes of the
\* file and the OCR checkbox.
C4_SameFileIsNoOp ==
  [][SameFileSeen =>
       /\ pc' = "body"
       /\ job' = job
       /\ UNCHANGED session]_vars

\* a run has seen, under the stored name, a file with other bytes than the
\* one the stored text came from, with results in the session
C4_Witness ==
  /\ pc = "body"
  /\ lastOp = Op("same file", TRUE)
  /\ uploaded_file # textFile
  /\ uploaded_file.name = uploaded_file_name
  /\ results # EmptyResults

\* C5: the Clear button can be pressed in every state that takes a user
\* interaction, and its handler leaves the text, every result slot and every
\* input key empty, whatever they held before.
C5_ClearResetsEverything ==
  /\ []((steps < MaxSteps /\ pc \in {"idle", "start", "extracting", "calling"})
          => ENABLED ClickClear)
  /\ [][ClearHandled =>
          /\ full_text' = EmptyText
          /\ results' = EmptyResults
          /\ q_a_input_tab' = EmptyText
          /\ clause_select_tab' = EmptyText
          /\ compare_input_tab' = EmptyText]_vars

\* the Clear handler has run over a session that held a result or an input
C5_Witness ==
  /\ lastOp = Op("clear", TRUE)
  /\ full_text = EmptyText
  /\ results = EmptyResults
  /\ InputsEmpty

\* C6: when a load completes with a failed extraction, the stored text is
\* empty, the stored name is the new file's, and every result slot and input
\* key is empty.
C6_FailedExtractionLeavesNoText ==
  (pc = "body" /\ lastOp.op = "load" /\ "extraction failed" \in notices)
    => /\ full_text = EmptyText
       /\ uploaded_file_name = textFile.name
       /\ results = EmptyResults
       /\ InputsEmpty

\* C7: when the completion call of a feature fails, in any way, the slot of
\* the feature is empty after the handler.
C7_FailureClearsSlot ==
  [][(OutcomeHandled /\ call.outcome.kind \in FailKinds)
       => results'[SlotOf[call.button]] = EmptyText]_vars

\* the content a handler is to leave in its slot: the engine output on
\* success, nothing on failure
ExpectedContent(o) ==
  IF o.kind = "ok" /\ o.raw # NoContent THEN Strip(o.raw) ELSE EmptyText

\* C8: a feature run leaves in its slot the outcome of its call (the output
\* on success, nothing on failure) and changes no other slot, neither the
\* document nor an input key.
C8_SlotHoldsLastOutcome ==
  [][OutcomeHandled =>
       /\ results' = [results EXCEPT
                        ![SlotOf[call.button]] = ExpectedContent(call.outcome)]
       /\ UNCHANGED <<full_text, uploaded_file_name, q_a_input_tab,
                      clause_select_tab, compare_input_tab>>]_vars

\* C10, as claimed: a feature button pressed with no document text signals
\* the violation (a notice is shown), changes no session key and starts no
\* completion call.
C10_PressOnEmptySignals ==
  [][PressOnEmptyDocument =>
       /\ notices' # notices
       /\ pc' # "calling"
       /\ UNCHANGED session]_vars

\* C10, amended: a feature button pressed with no document text is ignored:
\* no notice is shown, no session key changes and no completion call starts.
C10_PressOnEmptyIgnored ==
  [][PressOnEmptyDocument =>
       /\ notices' = notices
       /\ pc' = "idle"
       /\ call' = call
       /\ UNCHANGED session]_vars

\* a press of a feature button was ignored for want of a document text
C10_Witness ==
  /\ pc = "idle"
  /\ lastOp.op = "press ignored"
  /\ full_text = EmptyText

\* a line that is not blank: it has a character that is not white space
NonBlank(line) == \E i \in 1..Len(line) : ~IsSpace(line[i])

ParagraphsOf(story) == SelectSeq(story, LAMBDA b : b.kind = "Paragraph")

\* C19: the paragraph blocks of the story create_pdf builds are one title
\* heading and then, in their order, the lines of the content (split at the
\* newlines) that are not blank, one block for each such line.
C19_PdfParagraphsAreNonBlankLines ==
  exportStory # NoStory =>
    LET lines == SelectSeq(SplitLines(exportText, << >>), NonBlank)
    IN ParagraphsOf(exportStory) =
         << Paragraph(exportTitle, "h1") >>
           \o [i \in 1..Len(lines) |-> Paragraph(lines[i], "Normal")]

\* a story was built of a content with a blank line between two others
C19_Witness ==
  /\ exportStory # NoStory
  /\ exportText = <<"o", "NL", " ", "NL">>
  /\ Len(ParagraphsOf(exportStory)) = 2

\* the Q&A button is pressed on a document with the question input empty
PressWithoutQuestion ==
  /\ pc = "body"
  /\ trig = "q_a_button_tab"
  /\ full_text # EmptyText
  /\ q_a_input_tab = EmptyText

\* C11, as claimed: the Q&A button pressed with an empty question signals
\* the violation (a notice about the press is shown), starts no completion
\* call and leaves the Q&A slot as it was.
C11_EmptyQuestionSignals ==
  [][PressWithoutQuestion =>
       /\ \E n \in notices' \ notices : n # "no clauses"
       /\ pc' # "calling"
       /\ results'["qa_answer_result"] = results["qa_answer_result"]]_vars

\* C11, amended: the Q&A button pressed with an empty question is ignored:
\* no notice about the press is shown, no completion call starts and no
\* session key changes, so the Q&A slot keeps its content.
C11_EmptyQuestionIgnored ==
  [][PressWithoutQuestion =>
       /\ notices' \subseteq notices \cup {"no clauses"}
       /\ pc' = "idle"
       /\ call' = call
       /\ UNCHANGED session]_vars

\* a press of the Q&A button with an empty question was ignored while the
\* Q&A slot held an answer
C11_Witness ==
  /\ pc = "idle"
  /\ lastOp = Op("press ignored", TRUE)
  /\ full_text # EmptyText
  /\ q_a_input_tab = EmptyText
  /\ results["qa_answer_result"] # EmptyText

\* the notices a handler shows for a failed completion call
ErrorNotices == {"OpenAI API Error", "unexpected error", "uncaught AttributeError"}

ErrorShown == notices \cap ErrorNotices # {}

\* a run starts that no button press and no new upload has asked for: it is
\* neither a run of a feature nor an invalidation
PlainRerunStarts ==
  /\ pc = "start"
  /\ pc' # "start"
  /\ clicked = None
  /\ (uploaded_file = NoFile \/ uploaded_file.name = uploaded_file_name)

\* C12: the error of a failed feature run stays on record, apart from a slot
\* that never ran, until the feature runs again or the results are
\* invalidated: a run that is neither keeps the error that was shown.
C12_ErrorStaysOnRecord ==
  [][(PlainRerunStarts /\ ErrorShown) => ErrorShown']_vars

\* the handler of the pressed button is reached: lines 341, 362, 422-439
HandlerReached ==
  pc = "body" /\ trig \in FeatureButtons /\ HandlerRuns(trig, full_text)

\* the first half of C13: a press that reaches a handler starts one
\* completion call, made of the document, persona and input of that run,
\* whatever the slot holds
NoCacheReuse ==
  [][HandlerReached =>
       /\ pc' = "calling"
       /\ call' = [button |-> trig, prompt |-> PromptOf(trig, full_text),
                   outcome |-> NoOutcome]]_vars

\* C13: every press that reaches a handler starts one completion call, and
\* a slot that held a result holds, after the handler, the outcome of the
\* new call and not the old result.
C13_EveryRunCallsAndOverwrites ==
  /\ NoCacheReuse
  /\ [][(OutcomeHandled /\ results[SlotOf[call.button]] # EmptyText)
          => results'[SlotOf[call.button]] = ExpectedContent(call.outcome)]_vars

\* a step of the script, not of the user
ScriptStep == steps' = steps

\* C14: a change of the persona changes no session key (document, results,
\* inputs); a completion call is made with the persona the text area holds
\* when the handler runs; and no step of the script (a load and a Clear
\* among them) changes the persona.
C14_PersonaIsIndependent ==
  /\ [][custom_ai_instruction' # custom_ai_instruction
          => UNCHANGED session]_vars
  /\ [][(pc = "body" /\ pc' = "calling")
          => call'.prompt.persona = custom_ai_instruction]_vars
  /\ [][ScriptStep => custom_ai_instruction' = custom_ai_instruction]_vars

\* after a change of the persona, a result made under the old persona is
\* still in its slot, next to one made under the new persona
C14_Witness ==
  /\ pc = "idle"
  /\ custom_ai_instruction # DefaultPersona
  /\ \E s, t \in Slots :
       /\ results[s] # EmptyText
       /\ origin[s].persona = DefaultPersona
       /\ results[t] # EmptyText
       /\ origin[t].persona = custom_ai_instruction

\* a run finds, in the uploader, a file under the stored name, and the
\* stored text came from a load under that name whose extraction failed
SameFileAfterFailedLoad ==
  /\ pc = "start"
  /\ pc' # "start"
  /\ uploaded_file # NoFile
  /\ uploaded_file.name = uploaded_file_name
  /\ textFile.name = uploaded_file_name
  /\ HasErr(textFile.body)

\* the first half of C15: such a run starts no extraction and changes no
\* session key, whatever the OCR checkbox says
FailedLoadIsNotRetried ==
  [][SameFileAfterFailedLoad =>
       /\ pc' = "body"
       /\ job' = job
       /\ UNCHANGED session]_vars

\* C15: after a load whose extraction failed, a run that finds the same
\* file name in the uploader (with the OCR checkbox changed or not) starts no
\* extraction, and the document text is empty.
C15_FailedLoadIsNotRetried ==
  /\ FailedLoadIsNotRetried
  /\ [][SameFileAfterFailedLoad => full_text' = EmptyText]_vars

\* C16: a run that no button press and no new upload has asked for starts
\* no extraction, and a run in which no button is pressed starts no
\* completion call; neither changes a session key.
C16_NoAutomaticRetry ==
  /\ [][PlainRerunStarts =>
          /\ pc' = "body"
          /\ job' = job
          /\ UNCHANGED session]_vars
  /\ [][(pc = "body" /\ trig = None) =>
          /\ pc' = "idle"
          /\ call' = call
          /\ UNCHANGED session]_vars

\* a run without a press has ended after a load whose extraction failed:
\* the text is still empty and the file is still in the uploader
C16_Witness ==
  /\ pc = "idle"
  /\ lastOp.op = "same file"
  /\ uploaded_file # NoFile
  /\ textFile.name = uploaded_file_name
  /\ HasErr(textFile.body)
  /\ full_text = EmptyText

\* C18: when the user changes the question, or the selected clause, the
\* other input keys, every result slot (the feature's own too) and the
\* document are unchanged.
C18_InputChangeTouchesNothingElse ==
  /\ [][(~ScriptStep /\ q_a_input_tab' # q_a_input_tab) =>
          UNCHANGED <<full_text, uploaded_file_name, results,
                      clause_select_tab, compare_input_tab>>]_vars
  /\ [][(~ScriptStep /\ clause_select_tab' # clause_select_tab) =>
          UNCHANGED <<full_text, uploaded_file_name, results,
                      q_a_input_tab, compare_input_tab>>]_vars

\* the question was changed after it was answered and a clause is selected:
\* the answer to the old question is still in its slot
C18_Witness ==
  /\ full_text # EmptyText
  /\ results["qa_answer_result"] # EmptyText
  /\ origin["qa_answer_result"].input # q_a_input_tab
  /\ clause_select_tab # EmptyText

\* the run that st.rerun() of the Clear handler asked for starts, and the
\* uploader still holds a file
RerunAfterClear ==
  /\ pc = "start"
  /\ pc' # "start"
  /\ lastOp.op = "clear"
  /\ uploaded_file # NoFile

\* C20: the Clear handler sets the stored file name to None, and the run
\* that follows it, when the uploader still holds a file, takes that file
\* for a new upload: it stores its name and starts its extraction, in the
\* mode the OCR checkbox has at that moment.
C20_ClearRetriggersExtraction ==
  /\ [][ClearHandled => uploaded_file_name' = NoName]_vars
  /\ [][RerunAfterClear =>
          /\ pc' = "extracting"
          /\ uploaded_file_name' = uploaded_file.name
          /\ job' = [file |-> uploaded_file, ocr |-> use_ocr]]_vars

\* after a load without OCR and a Clear, the file that stayed in the
\* uploader is being extracted again, now with OCR
C20_Witness ==
  /\ pc = "extracting"
  /\ lastOp.op = "upload after clear"
  /\ job.file = uploaded_file
  /\ job.ocr
  /\ FileTypeOf(job.file.name) = "pdf"

\* C21: in every state, an empty document text comes with twelve empty
\* result slots.
C21_EmptyTextHasNoResults ==
  full_text = EmptyText => results = EmptyResults

\* a load that yielded no text has completed over a session that held a
\* result
C21_Witness ==
  /\ full_text = EmptyText
  /\ dropped
  /\ lastOp.op = "load"
  /\ results = EmptyResults

ClauseButton == "explain_clause_button_tab"

RunWithoutFile == pc = "start" /\ pc' # "start" /\ uploaded_file = NoFile

\* the run before this one found the uploader empty, and this one finds in
\* it a file under the stored name
SameNameAfterRemoval ==
  /\ pc = "start"
  /\ pc' # "start"
  /\ lastOp.op = "no file"
  /\ uploaded_file # NoFile
  /\ uploaded_file.name = uploaded_file_name

\* a feature button is pressed, with the input its feature needs, on a
\* document whose file is no longer in the uploader
PressWithoutFile ==
  /\ pc = "body"
  /\ uploaded_file = NoFile
  /\ full_text # EmptyText
  /\ trig \in FeatureButtons
  /\ trig = "q_a_button_tab" => q_a_input_tab # EmptyText
  /\ trig = ClauseButton => Clauses(full_text) # << >>

\* C23: a run that finds the uploader empty starts no extraction and
\* changes no session key (text, stored name, results, inputs); a press on
\* the document still starts its completion call; and a later run that
\* finds a file under the stored name starts no extraction and changes no
\* session key either.
C23_RemovedFileChangesNothing ==
  /\ [][RunWithoutFile =>
          /\ pc' = "body"
          /\ job' = job
          /\ UNCHANGED session]_vars
  /\ [][PressWithoutFile => (pc' = "calling" /\ call'.button = trig)]_vars
  /\ [][SameNameAfterRemoval =>
          /\ pc' = "body"
          /\ job' = job
          /\ UNCHANGED session]_vars

\* the file was removed from the uploader, the run that followed kept the
\* document, and a completion call on it is in flight
C23_Witness ==
  /\ pc = "calling"
  /\ ~stopReq
  /\ lastOp.op = "no file"
  /\ uploaded_file = NoFile
  /\ uploaded_file_name # NoName
  /\ call.prompt.doc = full_text
  /\ full_text # EmptyText

====
